---- MODULE Spec2Model ----
(***************************************************************************)
(* Model of src/src/main.rs (unpdf): open a PDF, walk its pages collecting *)
(* the image XObjects, then write one file per image whose stream filter   *)
(* is DCT, JBIG2 or JPX; every other image is inflated, PNG-decoded and    *)
(* dropped.  `?` ends main with Err, `unwrap()` on an Err panics.          *)
(***************************************************************************)
EXTENDS Integers, Sequences, FiniteSets, TLC

\* Bounds of the explored documents.
MaxPages == 2
MaxXObjects == 3

(***************************************************************************)
(* Byte strings.  A stream is abstracted to what the libraries applied to  *)
(* it can tell apart: its container format and, for sample data, the       *)
(* geometry it encodes.                                                    *)
(***************************************************************************)
Bytes(fmt, w, h, ch, bits) ==
    [fmt |-> fmt, w |-> w, h |-> h, ch |-> ch, bits |-> bits]

\* An object of the document: what file.get(r) yields for a reference r
\* ("Missing": the reference does not resolve), and for an image its
\* dictionary and stored stream.  dictOk: raw_image_data returns Ok.
Obj(kind, dictOk, filter, w, h, data) ==
    [kind |-> kind, dictOk |-> dictOk, filter |-> filter,
     width |-> w, height |-> h, bpc |-> 8, channels |-> 1, data |-> data]

\* The object table of the explored documents, indexed by reference.
Objects ==
    << Obj("Image", TRUE, "DCTDecode", 2, 2, Bytes("jpeg", 2, 2, 1, 8)),
       Obj("Image", TRUE, "JBIG2Decode", 2, 2, Bytes("jbig2", 2, 2, 1, 1)),
       Obj("Image", TRUE, "JPXDecode", 2, 2, Bytes("jp2k", 2, 2, 1, 8)),
       Obj("Image", TRUE, "FlateDecode", 2, 2, Bytes("deflate_png", 2, 2, 1, 8)),
       Obj("Image", TRUE, "FlateDecode", 2, 2, Bytes("deflate_samples", 2, 2, 1, 8)),
       Obj("Image", TRUE, "FlateDecode", 2, 2, Bytes("corrupt", 0, 0, 1, 8)),
       Obj("Image", TRUE, "None", 2, 2, Bytes("samples", 2, 2, 1, 8)),
       Obj("Image", TRUE, "None", 2, 2, Bytes("deflate_png", 1, 1, 1, 8)),
       Obj("Image", TRUE, "CCITTFaxDecode", 2, 2, Bytes("g4", 2, 2, 1, 1)),
       Obj("Image", FALSE, "DCTDecode", 0, 2, Bytes("jpeg", 2, 2, 1, 8)),
       Obj("Form", TRUE, "None", 0, 0, Bytes("content", 0, 0, 1, 8)),
       Obj("Missing", FALSE, "None", 0, 0, Bytes("none", 0, 0, 1, 8)) >>

Refs == DOMAIN Objects

\* A page: whether it loads, whether its resources resolve, and its
\* XObject references in the iteration order of resources.xobjects.
Page(load, res, xobjects) ==
    [load |-> load, res |-> res, xobjects |-> xobjects]

\* What a page of the file can be: fine, not loadable, or without
\* resolvable resources (such a page exposes no XObjects).
PageStates == {"ok", "noload", "nores"}

\* The document of np pages whose page k is in state st[k] and holds the
\* references refs[ends[k-1]+1 .. ends[k]].
MakeDoc(np, st, ends, refs) ==
    [k \in 1..np |->
        Page(st[k] # "noload", st[k] # "nores",
             SubSeq(refs, (IF k = 1 THEN 0 ELSE ends[k - 1]) + 1, ends[k]))]

\* ends cuts n references into np pages, the pages that are not fine empty.
CutsPages(np, n, st, ends) ==
    /\ IF np = 0 THEN n = 0 ELSE ends[np] = n
    /\ \A k \in 1..np :
          LET lo == IF k = 1 THEN 0 ELSE ends[k - 1] IN
             /\ lo <= ends[k]
             /\ st[k] # "ok" => ends[k] = lo

VARIABLES
    doc,      \* the document behind `file` (read-only)
    pc,       \* "open", "walk" (lines 72-84) or "process" (lines 88-130)
    exit,     \* "running", "ok" (Ok(())), "err" (main returned Err), "panic"
    p,        \* number of pages the walk has consumed
    images,   \* the Vec `images`, as references
    i,        \* the enumerate() index of the next image
    written,  \* the files fs::write created in out_dir, in order
    bytes     \* the `bytes` slices of line 115, by image index

vars == <<doc, pc, exit, p, images, i, written, bytes>>

Aborted == {"err", "panic"}

Init ==
    /\ \E np \in 0..MaxPages, n \in 0..MaxXObjects :
          \E st \in [1..np -> PageStates], ends \in [1..np -> 0..n] :
             /\ CutsPages(np, n, st, ends)
             /\ \E refs \in [1..n -> Refs] : doc = MakeDoc(np, st, ends, refs)
    /\ pc = "open"
    /\ exit = "running"
    /\ p = 0
    /\ images = <<>>
    /\ i = 0
    /\ written = <<>>
    /\ bytes = <<>>


(***************************************************************************)
(* The page walk, lines 72-84.                                             *)
(***************************************************************************)

\* Mutant of PageImages: the filter on XObject::Image is left out.
PageImagesUnfiltered(pg) ==
    SelectSeq(pg.xobjects, LAMBDA r : Objects[r].kind # "Missing")

\* file.get(r).unwrap() over resources.xobjects, kept when XObject::Image.
PageImages(pg) ==
    SelectSeq(pg.xobjects, LAMBDA r : Objects[r].kind = "Image")

\* Some reference of the page does not resolve: file.get(r) is Err.
HasMissingRef(pg) ==
    \E k \in 1..Len(pg.xobjects) : Objects[pg.xobjects[k]].kind = "Missing"

\* FileOptions::cached().open(args.pdf_file)?  (line 68)
Open ==
    /\ pc = "open" /\ exit = "running"
    /\ \E ok \in BOOLEAN :
          IF ok THEN pc' = "walk" /\ exit' = exit
                ELSE pc' = pc /\ exit' = "err"
    /\ UNCHANGED <<doc, p, images, i, written, bytes>>

\* One iteration of `for page in file.pages()`.
WalkPage ==
    /\ pc = "walk" /\ exit = "running" /\ p < Len(doc)
    /\ LET pg == doc[p + 1] IN
          IF ~pg.load THEN                       \* page.unwrap()
              exit' = "panic" /\ UNCHANGED <<p, images>>
          ELSE IF ~pg.res THEN                   \* page.resources()?
              exit' = "err" /\ UNCHANGED <<p, images>>
          ELSE IF HasMissingRef(pg) THEN         \* file.get(r).unwrap()
              exit' = "panic" /\ UNCHANGED <<p, images>>
          ELSE
              /\ images' = images \o PageImages(pg)
              /\ p' = p + 1
              /\ exit' = exit
    /\ UNCHANGED <<doc, pc, i, written, bytes>>

\* The page iterator is exhausted: line 86, then the image loop starts.
WalkDone ==
    /\ pc = "walk" /\ exit = "running" /\ p = Len(doc)
    /\ pc' = "process"
    /\ UNCHANGED <<doc, exit, p, images, i, written, bytes>>

(***************************************************************************)
(* The image loop, lines 88-130.                                           *)
(***************************************************************************)

\* The `_` arm of the match on the filter has no extension.
NoExt == ""

\* Mutant of Ext: one extension for the whole run, whatever the filter.
ExtTargetFormat(filter) ==
    IF filter \in {"DCTDecode", "JBIG2Decode", "JPXDecode"} THEN "jpeg" ELSE NoExt

\* Mutant of Ext: the JBIG2 arm yields the JPEG extension.
ExtJbig2AsJpeg(filter) ==
    CASE filter = "DCTDecode" -> "jpeg"
      [] filter = "JBIG2Decode" -> "jpeg"
      [] filter = "JPXDecode" -> "jp2k"
      [] OTHER -> NoExt

\* match filter { ... }, lines 98-119.
Ext(filter) ==
    CASE filter = "DCTDecode" -> "jpeg"
      [] filter = "JBIG2Decode" -> "jbig2"
      [] filter = "JPXDecode" -> "jp2k"
      [] OTHER -> NoExt

\* Mutant of FileName: numbered by the count of files written so far.
FileNameByCount(n, ext) ==
    [prefix |-> "extracted_image_", index |-> Len(written), ext |-> ext]

\* format!("extracted_image_{}.{}", i, ext), line 123.
FileName(n, ext) ==
    [prefix |-> "extracted_image_", index |-> n, ext |-> ext]

\* DeflateDecoder::read_to_end, lines 103-105: Ok only on a deflate stream.
Inflate(d) ==
    CASE d.fmt = "deflate_png" -> [ok |-> TRUE, out |-> [d EXCEPT !.fmt = "png"]]
      [] d.fmt = "deflate_samples" -> [ok |-> TRUE, out |-> [d EXCEPT !.fmt = "samples"]]
      [] OTHER -> [ok |-> FALSE, out |-> d]

\* png::Decoder read_info / next_frame, lines 107-115: Ok only on a PNG;
\* the frame has height rows of ceil(width * channels * bits / 8) bytes.
PngFrame(d) ==
    IF d.fmt = "png"
    THEN [ok |-> TRUE, len |-> d.h * ((d.w * d.ch * d.bits + 7) \div 8)]
    ELSE [ok |-> FALSE, len |-> 0]

\* Mutant of WriteFile: the stream is re-encoded before it is written.
WriteFileReencoded(files, name, data) ==
    Append(files, [name |-> name, data |-> [data EXCEPT !.fmt = "png"],
                   complete |-> TRUE])

\* fs::write(dir_file, data) returning Ok, line 127.
WriteFile(files, name, data) ==
    Append(files, [name |-> name, data |-> data, complete |-> TRUE])

\* fs::write returning Err after it created the file: a prefix is left.
WritePartial(files, name, data) ==
    Append(files, [name |-> name, data |-> [data EXCEPT !.fmt = "truncated"],
                   complete |-> FALSE])

\* One iteration of `for (i, o) in images.iter().enumerate()`.
ProcessImage ==
    /\ pc = "process" /\ exit = "running" /\ i < Len(images)
    /\ LET o == Objects[images[i + 1]]
           ext == Ext(o.filter)
           z == Inflate(o.data)
           f == PngFrame(z.out)
       IN
          IF ~o.dictOk THEN                      \* raw_image_data(&file)?
              exit' = "err" /\ UNCHANGED <<i, written, bytes>>
          ELSE IF ext # NoExt THEN
              \E io \in {"ok", "nofile", "partial"} :
                  CASE io = "ok" ->
                          /\ written' = WriteFile(written, FileName(i, ext), o.data)
                          /\ i' = i + 1
                          /\ UNCHANGED <<exit, bytes>>
                    [] io = "nofile" ->          \* fs::write(..)?
                          exit' = "err" /\ UNCHANGED <<i, written, bytes>>
                    [] io = "partial" ->
                          /\ written' = WritePartial(written, FileName(i, ext), o.data)
                          /\ exit' = "err"
                          /\ UNCHANGED <<i, bytes>>
          ELSE IF ~z.ok THEN                     \* d.read_to_end(&mut buf)?
              exit' = "err" /\ UNCHANGED <<i, written, bytes>>
          ELSE IF ~f.ok THEN                     \* read_info().unwrap()
              exit' = "panic" /\ UNCHANGED <<i, written, bytes>>
          ELSE                                   \* bytes computed, continue
              /\ bytes' = Append(bytes, [index |-> i, len |-> f.len])
              /\ i' = i + 1
              /\ UNCHANGED <<exit, written>>
    /\ UNCHANGED <<doc, pc, p, images>>

\* The image iterator is exhausted: Ok(()), line 132.
Finish ==
    /\ pc = "process" /\ exit = "running" /\ i = Len(images)
    /\ exit' = "ok"
    /\ UNCHANGED <<doc, pc, p, images, i, written, bytes>>

Next == Open \/ WalkPage \/ WalkDone \/ ProcessImage \/ Finish

Spec == Init /\ [][Next]_vars

(***************************************************************************)
(* Vocabulary of the properties.                                           *)
(***************************************************************************)

\* The object of the image at enumerate() index k.
Img(k) == Objects[images[k + 1]]

\* The positions in `written` of the files whose name carries index k.
FilesAt(k) == {n \in 1..Len(written) : written[n].name.index = k}

\* The run ended inside the image loop at the image of index k.
AbortedAt(k) == pc = "process" /\ exit \in Aborted /\ i = k

PassThroughFilters == {"DCTDecode", "JBIG2Decode", "JPXDecode"}
GenericFilters == {"None", "FlateDecode"}

\* The image references of a reference list, one by one, in order.
RECURSIVE ImageRefs(_)
ImageRefs(xs) ==
    IF Len(xs) = 0 THEN <<>>
    ELSE (IF Objects[Head(xs)].kind = "Image" THEN <<Head(xs)>> ELSE <<>>)
             \o ImageRefs(Tail(xs))

\* The image occurrences of a document in page order, a page that does not
\* load or resolve contributing nothing.
RECURSIVE Collected(_)
Collected(d) ==
    IF Len(d) = 0 THEN <<>>
    ELSE (IF Head(d).load /\ Head(d).res THEN ImageRefs(Head(d).xobjects) ELSE <<>>)
             \o Collected(Tail(d))

\* The (page, position) pairs of a document that hold an image reference.
ImageOccurrences(d) ==
    {<<a, b>> \in (1..Len(d)) \X (1..MaxXObjects) :
        /\ b <= Len(d[a].xobjects)
        /\ Objects[d[a].xobjects[b]].kind = "Image"}

\* Every page loads and resolves and every reference resolves.
NoResolutionFails(d) ==
    \A a \in 1..Len(d) : d[a].load /\ d[a].res /\ ~HasMissingRef(d[a])

\* width * height * channels * ceil(bits_per_component / 8) of a dictionary.
DictLen(o) == o.width * o.height * o.channels * ((o.bpc + 7) \div 8)


(***************************************************************************)
(* Properties.                                                             *)
(***************************************************************************)

\* C1: per-image error isolation.  A failure while processing one image
\* (its stream cannot be extracted, its deflate layer is corrupt, its file
\* cannot be written) skips that image only: once the run has ended, every
\* other image whose stream is extracted and passed through has its file.
C1_PerImageErrorIsolation ==
    (pc = "process" /\ exit # "running") =>
        \A k \in 0..(Len(images) - 1) :
            (~AbortedAt(k) /\ Img(k).dictOk /\ Img(k).filter \in PassThroughFilters)
                => FilesAt(k) # {}

\* C2: an image whose filter is neither DCT, JBIG2, JPX, empty nor a
\* generic lossless compression never ends the run and gets no file.
C2_UnsupportedFilterSkipped ==
    \A k \in 0..(Len(images) - 1) :
        Img(k).filter \notin PassThroughFilters \cup GenericFilters
            => ~AbortedAt(k) /\ FilesAt(k) = {}

\* C3: a page that does not load, a page whose resources do not resolve and
\* a reference that does not resolve are skipped without ending the run:
\* once the run has ended, the images of every other page and reference
\* have been collected.
C3_WalkSkipsFailures ==
    (pc # "open" /\ exit # "running") => images = Collected(doc)

\* C4: pass-through is byte-exact.  The file fs::write completed for a DCT
\* image has the jpeg extension and holds exactly the bytes raw_image_data
\* returned for that image.
C4_PassThroughByteExact ==
    \A n \in 1..Len(written) :
        LET f == written[n] IN
           (f.complete /\ Img(f.name.index).filter = "DCTDecode")
               => f.name.ext = "jpeg" /\ f.data = Img(f.name.index).data

C4_Witness ==
    /\ exit = "ok"
    /\ \E n \in 1..Len(written) :
          /\ written[n].complete
          /\ Img(written[n].name.index).filter = "DCTDecode"
          /\ written[n].data.fmt = "jpeg"

\* C5: when no resolution fails the walk does not end the run, and the
\* collected sequence is the concatenation in page order of each page's
\* image XObjects in iteration order: non-images left out, an image
\* referenced on k pages present k times, N occurrences giving N entries.
C5_CollectedInOrder ==
    NoResolutionFails(doc) =>
        /\ pc = "walk" => exit = "running"
        /\ pc \in {"walk", "process"} => images = Collected(SubSeq(doc, 1, p))
        /\ pc = "process" =>
              /\ p = Len(doc)
              /\ Len(images) = Cardinality(ImageOccurrences(doc))

C5_Witness ==
    /\ pc = "process" /\ NoResolutionFails(doc) /\ Len(doc) = 2
    /\ \E a \in 1..2 : \E b \in 1..Len(doc[a].xobjects) :
          Objects[doc[a].xobjects[b]].kind = "Form"
    /\ \E b \in 1..Len(doc[1].xobjects) : \E c \in 1..Len(doc[2].xobjects) :
          /\ doc[1].xobjects[b] = doc[2].xobjects[c]
          /\ Objects[doc[1].xobjects[b]].kind = "Image"
    /\ Len(images) = 2 /\ images[1] = images[2]

\* C6: every image that the loop has passed, whose filter is empty or
\* generic lossless and whose stream inflates without error, has exactly
\* one output file.
C6_GenericImageGetsFile ==
    \A k \in 0..(i - 1) :
        (Img(k).filter \in GenericFilters /\ Inflate(Img(k).data).ok)
            => Cardinality(FilesAt(k)) = 1

C9_EmptyChainBufferLength ==
    \A k \in 0..(Len(images) - 1) :
        (Img(k).filter = "None" /\ (k < i \/ AbortedAt(k)))
            => \E n \in 1..Len(bytes) :
                  bytes[n].index = k /\ bytes[n].len = DictLen(Img(k))

\* C10: the index in a file name is the position of its image in the
\* collected sequence, so files are written in strictly increasing index
\* order and no two files of a run share a name; indices may have gaps.
C10_IndexIsImagePosition ==
    /\ \A n \in 1..Len(written) :
          LET f == written[n] IN
             /\ f.name.index \in 0..(Len(images) - 1)
             /\ f.name.index <= i
             /\ f.complete => f.name.index < i
             /\ Img(f.name.index).filter \in PassThroughFilters
             /\ f.complete => f.data = Img(f.name.index).data
    /\ \A m, n \in 1..Len(written) :
          m < n => /\ written[m].name.index < written[n].name.index
                   /\ written[m].name # written[n].name

C10_Witness ==
    /\ exit = "ok"
    /\ Len(written) = 2
    /\ written[1].name.index = 0
    /\ written[2].name.index = 2
    /\ FilesAt(1) = {}

====
